---- MODULE Spec2Model ----
(***************************************************************************)
(* discord-lumiabot: a bridge between a Discord bot (DiscordBot) and the   *)
(* LumiaStream WebSocket API (LumiaStream), run by DiscordBotRunner and    *)
(* supervised by the Qt main window (MainWindow).                          *)
(*                                                                         *)
(* Execution contexts of the program, each interleaved with the others:    *)
(*   - the Qt main thread: viewSettingsDialog, check_status (QTimer),      *)
(*     closeEvent -> DiscordBotRunner.close;                               *)
(*   - the DiscordBotRunner thread: run (lumia_start, then the bot and its *)
(*     asyncio loop, on which every DiscordBot.on_message task runs);      *)
(*   - one LumiaStream thread per LumiaStream object: run and the          *)
(*     WebSocketApp callbacks on_open, on_message, on_error, on_close.     *)
(***************************************************************************)
EXTENDS Integers, Sequences, FiniteSets, TLC

(* ------------------------------ bounds -------------------------------- *)
\* LumiaStream objects a run may create (lumia_start has no cap of its own).
MaxConns == 2
\* Clock steps a run may take past ClockBase.
MaxTicks == 3
\* The wall clock (time.time(), seconds since the epoch) when the program
\* starts: any value above SecsBetweenResponses; a Discord login needs a
\* clock inside the validity of the gateway's certificate.
ClockBase == 20
\* Cap of the suppressed counter num_responses (unbounded in the code).
MaxNum == 2
\* on_message tasks that may be suspended in channel.send at once.
MaxAwait == 2
\* Settings saves a run may make while a bridge already exists.
MaxReplaced == 1

(* ------------------------- program constants -------------------------- *)
\* DiscordBot.SecsBetweenResponses
SecsBetweenResponses == 10
\* DiscordBot.channels: the one configured channel id.
channels == {1}

\* The clock advances in steps of half the gate, so that the time since the
\* last acknowledgment is below, exactly at, or above SecsBetweenResponses.
TickSecs == SecsBetweenResponses \div 2

\* Message texts: empty, unprefixed, the bare prefix, prefixed commands, and
\* a text with the prefix elsewhere than first.
Contents == {<<>>, <<"a">>, <<"!">>, <<"!", "a">>, <<"!", "!">>, <<"a", "!">>}
\* Channel ids a message may come from: the monitored one and another.
ChannelIds == {1, 2}
Messages == [channel : ChannelIds, content : Contents]
ConnIds == 1..MaxConns

VARIABLES
    discord_bot,    \* MainWindow.discord_bot: "None" or "runner"
    windowOpen,     \* the Qt event loop still runs (no closeEvent yet)
    discordLabel,   \* MainWindow.discordStatusLabel text
    lumiaLabel,     \* MainWindow.lumiaStatusLabel text
    replaced,       \* DiscordBotRunner objects started, never closed, and no
                    \* longer referred to by MainWindow.discord_bot
    runnerPc,       \* DiscordBotRunner thread: where run() is
    stopping,       \* DiscordBotRunner._stopping
    closePc,        \* DiscordBotRunner.close(): "no", "joining", "returned", "raised"
    lumia,          \* DiscordBotRunner.lumia: 0 (None) or the LumiaStream object
    nconns,         \* LumiaStream objects created so far (connection attempts)
    lumiaPc,        \* per LumiaStream: where its thread is
    connected,      \* per LumiaStream: _connected
    botPc,          \* DiscordBotRunner.bot: "none" (None) or the client's state
    chatClose,      \* bot.close() has been scheduled on the loop
    last_response,  \* DiscordBot.last_response
    num_responses,  \* DiscordBot.num_responses
    awaiting,       \* on_message tasks suspended at `await message.channel.send`
    clock,          \* time.time(), whole seconds
    traffic,        \* observer: a prefixed command was handled by this bot before
    sinceAck,       \* observer: prefixed commands handled since the last emitted ack
    ev              \* observer: the operation that ran last and what it did

vars == <<discord_bot, windowOpen, discordLabel, lumiaLabel, replaced, runnerPc, stopping,
          closePc, lumia, nconns, lumiaPc, connected, botPc, chatClose,
          last_response, num_responses, awaiting, clock, traffic, sinceAck, ev>>

mainVars == <<discord_bot, windowOpen, discordLabel, lumiaLabel, replaced>>
runnerVars == <<runnerPc, stopping, closePc, lumia>>
connVars == <<nconns, lumiaPc, connected>>
botVars == <<botPc, chatClose>>
ackVars == <<last_response, num_responses, awaiting, traffic, sinceAck>>

(* State after MainWindow.__init__: no bridge, and the check_status() call *)
(* of line 87 has written "Not Running" to both labels.                    *)
Init ==
    /\ discord_bot = "None"
    /\ windowOpen = TRUE
    /\ discordLabel = "Not Running"
    /\ lumiaLabel = "Not Running"
    /\ replaced = 0
    /\ runnerPc = "none"
    /\ stopping = FALSE
    /\ closePc = "no"
    /\ lumia = 0
    /\ nconns = 0
    /\ lumiaPc = [c \in ConnIds |-> "unborn"]
    /\ connected = [c \in ConnIds |-> FALSE]
    /\ botPc = "none"
    /\ chatClose = FALSE
    /\ last_response = 0
    /\ num_responses = 0
    /\ awaiting = 0
    /\ clock = ClockBase
    /\ traffic = FALSE
    /\ sinceAck = 0
    /\ ev = [op |-> "init"]

(* ============================ MainWindow ============================== *)

(* DiscordBotRunner.lumia_start: a new LumiaStream object replaces         *)
(* self.lumia and its thread is started. Nothing is done to the object     *)
(* that self.lumia held before.                                            *)
lumia_start ==
    /\ nconns < MaxConns
    /\ nconns' = nconns + 1
    /\ lumia' = nconns + 1
    /\ lumiaPc' = [lumiaPc EXCEPT ![nconns + 1] = "started"]
    /\ connected' = [connected EXCEPT ![nconns + 1] = FALSE]

(* viewSettingsDialog, dialog accepted for the first time: a               *)
(* DiscordBotRunner is constructed and its thread started.                 *)
viewSettingsDialog ==
    /\ windowOpen
    /\ discord_bot = "None"
    /\ discord_bot' = "runner"
    /\ runnerPc' = "started"
    /\ ev' = [op |-> "viewSettingsDialog"]
    /\ UNCHANGED <<windowOpen, discordLabel, lumiaLabel, replaced>>
    /\ UNCHANGED <<stopping, closePc, lumia>>
    /\ UNCHANGED <<connVars, botVars, ackVars, clock>>

(* viewSettingsDialog, dialog accepted while self.discord_bot refers to a  *)
(* DiscordBotRunner: line 102 overwrites the reference with a new runner   *)
(* and line 104 starts it; nothing is called on the runner that was there. *)
(* The runner, lumia, bot and debouncer variables describe the runner      *)
(* self.discord_bot refers to, so they start afresh; the LumiaStream       *)
(* objects of the replaced runner keep their threads.                      *)
viewSettingsDialog_again ==
    /\ windowOpen
    /\ discord_bot # "None"
    /\ replaced < MaxReplaced
    /\ replaced' = replaced + 1
    /\ runnerPc' = "started"
    /\ stopping' = FALSE
    /\ closePc' = "no"
    /\ lumia' = 0
    /\ botPc' = "none"
    /\ chatClose' = FALSE
    /\ last_response' = 0
    /\ num_responses' = 0
    /\ awaiting' = 0
    /\ traffic' = FALSE
    /\ sinceAck' = 0
    /\ ev' = [op |-> "viewSettingsDialog"]
    /\ UNCHANGED <<discord_bot, windowOpen, discordLabel, lumiaLabel>>
    /\ UNCHANGED <<connVars, clock>>

(* DiscordBotRunner.discord_status: (alive and ready, text).               *)
discord_status ==
    IF botPc # "none"
    THEN <<botPc = "ready", "Logged In">>
    ELSE <<FALSE, "Not Running">>

(* LumiaStream.is_connected                                                *)
is_connected(c) == connected[c]

(* DiscordBotRunner.lumia_status: (connected, text); with self.lumia None  *)
(* the attribute access self.lumia.is_connected raises AttributeError.     *)
lumia_status ==
    IF lumia = 0
    THEN [raised |-> TRUE, connected |-> FALSE, msg |-> "Not Connected"]
    ELSE [raised |-> FALSE, connected |-> is_connected(lumia),
          msg |-> IF is_connected(lumia) THEN "Connected" ELSE "Not Connected"]

NeverReconnect(status) == FALSE
AlwaysReconnect(status) == TRUE
(* check_status, lines 131-137: reconnect when the status is false and a   *)
(* bridge exists.                                                          *)
NeedsReconnect(status) == ~status

RestartChat(pc) == IF pc = "logged_in" THEN "created" ELSE pc
(* check_status, lines 123-124 and 126-129: the bot is only asked for its  *)
(* status (discord_status reads bot.user and bot.is_ready()); nothing is   *)
(* called on it, whatever the status.                                      *)
BotAfterStatus(pc) == pc

(* MainWindow.check_status, called by the 5 s QTimer on the Qt main thread.*)
check_status ==
    /\ windowOpen
    /\ \/ /\ discord_bot = "None"
          /\ discordLabel' = "Not Running"
          /\ lumiaLabel' = "Not Running"
          /\ ev' = [op |-> "check_status", bridge |-> FALSE, raised |-> FALSE,
                    discord |-> FALSE, lumia |-> FALSE, reconnect |-> FALSE]
          /\ UNCHANGED <<lumia, connVars>>
       \/ /\ discord_bot # "None"
          /\ lumia_status.raised
          /\ ev' = [op |-> "check_status", bridge |-> TRUE, raised |-> TRUE,
                    discord |-> discord_status[1], lumia |-> FALSE,
                    reconnect |-> FALSE]
          /\ UNCHANGED <<discordLabel, lumiaLabel, lumia, connVars>>
       \/ /\ discord_bot # "None"
          /\ ~lumia_status.raised
          /\ discordLabel' = discord_status[2]
          /\ lumiaLabel' = lumia_status.msg
          /\ IF NeedsReconnect(lumia_status.connected)
             THEN lumia_start
             ELSE UNCHANGED <<lumia, connVars>>
          /\ ev' = [op |-> "check_status", bridge |-> TRUE, raised |-> FALSE,
                    discord |-> discord_status[1], lumia |-> lumia_status.connected,
                    reconnect |-> NeedsReconnect(lumia_status.connected)]
    /\ botPc' = BotAfterStatus(botPc)
    /\ UNCHANGED <<discord_bot, windowOpen, replaced, runnerPc, stopping, closePc>>
    /\ UNCHANGED <<chatClose, ackVars, clock>>

(* =========================== DiscordBotRunner ========================= *)

(* run, line 162: lumia_start().                                           *)
run_lumia_start ==
    /\ runnerPc = "started"
    /\ lumia_start
    /\ runnerPc' = "lumia_started"
    /\ ev' = [op |-> "run_lumia_start"]
    /\ UNCHANGED <<mainVars, stopping, closePc, botVars, ackVars, clock>>

(* run, lines 163-164: the DiscordBot is constructed (last_response = 0,   *)
(* num_responses = 0) and its start() is run on the asyncio loop.          *)
run_bot ==
    /\ runnerPc = "lumia_started"
    /\ runnerPc' = "bot_running"
    /\ botPc' = "created"
    /\ last_response' = 0
    /\ num_responses' = 0
    /\ ev' = [op |-> "run_bot"]
    /\ UNCHANGED <<mainVars, stopping, closePc, lumia, connVars, chatClose>>
    /\ UNCHANGED <<awaiting, traffic, sinceAck, clock>>

(* close, lines 101-102: the chat close is scheduled, not awaited.         *)
close_bot ==
    /\ chatClose' = (chatClose \/ botPc # "none")
    /\ closePc' = "returned"

(* MainWindow.closeEvent -> DiscordBotRunner.close, lines 97-99:           *)
(* _stopping is set; LumiaStream.stop calls self.socket.close(), which     *)
(* raises AttributeError while the socket is still None; otherwise the     *)
(* WebSocketApp is told to stop and close() goes on to join the thread.    *)
closeEvent ==
    /\ windowOpen
    /\ windowOpen' = FALSE
    /\ ev' = [op |-> "closeEvent"]
    /\ \/ /\ discord_bot = "None"
          /\ UNCHANGED <<stopping, closePc, lumiaPc, chatClose>>
       \/ /\ discord_bot # "None"
          /\ stopping' = TRUE
          /\ \/ /\ lumia = 0
                /\ close_bot
                /\ UNCHANGED lumiaPc
             \/ /\ lumia # 0
                /\ lumiaPc[lumia] = "started"
                /\ closePc' = "raised"
                /\ UNCHANGED <<lumiaPc, chatClose>>
             \/ /\ lumia # 0
                /\ lumiaPc[lumia] # "started"
                /\ lumiaPc' = [lumiaPc EXCEPT ![lumia] =
                       IF @ \in {"connecting", "open"} THEN "closing" ELSE @]
                /\ closePc' = "joining"
                /\ UNCHANGED chatClose
    /\ UNCHANGED <<discord_bot, discordLabel, lumiaLabel, replaced, runnerPc, lumia>>
    /\ UNCHANGED <<nconns, connected, botPc, ackVars, clock>>

(* close, line 100 onwards: join returns once the LumiaStream thread has   *)
(* exited.                                                                 *)
close_join ==
    /\ closePc = "joining"
    /\ lumiaPc[lumia] = "dead"
    /\ close_bot
    /\ ev' = [op |-> "close_join"]
    /\ UNCHANGED <<mainVars, runnerPc, stopping, lumia, connVars, botPc>>
    /\ UNCHANGED <<ackVars, clock>>

(* ============================= LumiaStream ============================ *)

(* run, lines 94-100: the WebSocketApp is created, _connected is set and   *)
(* run_forever starts connecting.                                          *)
LumiaStream_run(c) ==
    /\ lumiaPc[c] = "started"
    /\ lumiaPc' = [lumiaPc EXCEPT ![c] = "connecting"]
    /\ connected' = [connected EXCEPT ![c] = TRUE]
    /\ ev' = [op |-> "LumiaStream_run", conn |-> c]
    /\ UNCHANGED <<mainVars, runnerVars, nconns, botVars, ackVars, clock>>

(* on_open                                                                 *)
on_open(c) ==
    /\ lumiaPc[c] = "connecting"
    /\ lumiaPc' = [lumiaPc EXCEPT ![c] = "open"]
    /\ connected' = [connected EXCEPT ![c] = TRUE]
    /\ ev' = [op |-> "on_open", conn |-> c]
    /\ UNCHANGED <<mainVars, runnerVars, nconns, botVars, ackVars, clock>>

(* LumiaStream.on_message: the text is passed on as a signal.              *)
lumia_on_message(c) ==
    /\ lumiaPc[c] = "open"
    /\ ev' = [op |-> "lumia_on_message", conn |-> c]
    /\ UNCHANGED <<mainVars, runnerVars, connVars, botVars, ackVars, clock>>

ErrorClearsFlag(c) == FALSE
(* on_error, lines 71-73: the error is passed on as a signal; _connected   *)
(* is not assigned.                                                        *)
ConnectedAfterError(c) == connected[c]

(* on_error: the handshake failed or the open socket failed; the           *)
(* WebSocketApp tears the connection down next (on_close).                 *)
on_error(c) ==
    /\ lumiaPc[c] \in {"connecting", "open"}
    /\ lumiaPc' = [lumiaPc EXCEPT ![c] = "closing"]
    /\ connected' = [connected EXCEPT ![c] = ConnectedAfterError(c)]
    /\ ev' = [op |-> "on_error", conn |-> c]
    /\ UNCHANGED <<mainVars, runnerVars, nconns, botVars, ackVars, clock>>

(* on_close: the peer closed an open connection, or the teardown after an  *)
(* error or after stop(); run_forever returns and the thread exits.        *)
on_close(c) ==
    /\ lumiaPc[c] \in {"open", "closing"}
    /\ lumiaPc' = [lumiaPc EXCEPT ![c] = "dead"]
    /\ connected' = [connected EXCEPT ![c] = FALSE]
    /\ ev' = [op |-> "on_close", conn |-> c]
    /\ UNCHANGED <<mainVars, runnerVars, nconns, botVars, ackVars, clock>>

(* ============================== DiscordBot ============================ *)

(* The client logs in (bot.user is set), becomes ready, loses readiness    *)
(* when the gateway session drops, and ends once a scheduled close() ran.  *)
bot_login ==
    /\ botPc = "created"
    /\ botPc' = "logged_in"
    /\ ev' = [op |-> "bot_login"]
    /\ UNCHANGED <<mainVars, runnerVars, connVars, chatClose, ackVars, clock>>

bot_ready ==
    /\ botPc = "logged_in"
    /\ botPc' = "ready"
    /\ ev' = [op |-> "bot_ready"]
    /\ UNCHANGED <<mainVars, runnerVars, connVars, chatClose, ackVars, clock>>

bot_drop ==
    /\ botPc = "ready"
    /\ botPc' = "logged_in"
    /\ ev' = [op |-> "bot_drop"]
    /\ UNCHANGED <<mainVars, runnerVars, connVars, chatClose, ackVars, clock>>

bot_closed ==
    /\ chatClose
    /\ botPc \notin {"none", "closed"}
    /\ botPc' = "closed"
    /\ ev' = [op |-> "bot_closed"]
    /\ UNCHANGED <<mainVars, runnerVars, connVars, chatClose, ackVars, clock>>

AnyChannel(m) == Len(m.content) > 0 /\ m.content[1] = "!"
(* on_message, lines 36-37: the message is in the monitored channel, is    *)
(* not empty and starts with "!".                                          *)
Qualifies(m) ==
    /\ m.channel \in channels
    /\ Len(m.content) > 0
    /\ m.content[1] = "!"

Unstripped(content) == content
(* on_message, line 38: command = message.content[1:]                      *)
command(content) == SubSeq(content, 2, Len(content))

(* DiscordBotRunner.on_discord_msg, lines 91-92: send_chat_cmd is called   *)
(* when self.lumia is set.                                                 *)
send_calls == IF lumia # 0 THEN 1 ELSE 0

(* LumiaStream.send_chat_cmd, line 61: self.socket.send(...). The socket   *)
(* is None until the LumiaStream thread ran (AttributeError); the          *)
(* WebSocketApp sends on an open connection and raises                     *)
(* WebSocketConnectionClosedException on any other.                        *)
send_chat_cmd ==
    IF lumia = 0 THEN "not called"
    ELSE IF lumiaPc[lumia] = "started" THEN "AttributeError"
    ELSE IF lumiaPc[lumia] = "open" THEN "sent"
    ELSE "ConnectionClosed"

GateAtLeast(now) == now - last_response >= SecsBetweenResponses
(* on_message, line 40: time.time() - self.last_response > 10              *)
GateOpen(now) == now - last_response > SecsBetweenResponses

(* on_message, lines 41-43: the suffix of the acknowledgment; 0 stands for *)
(* the empty string, k > 0 for "  - and k others".                         *)
response_str == IF num_responses > 0 THEN num_responses ELSE 0

(* DiscordBot.on_message, from the start of the task to its first await    *)
(* or its end. An exception of send_chat_cmd leaves on_discord_msg before  *)
(* its log line and on_message before line 40.                             *)
on_message(m) ==
    LET q == Qualifies(m)
        outcome == IF q THEN send_chat_cmd ELSE "not called"
        raised == outcome \in {"AttributeError", "ConnectionClosed"}
        runs == q /\ ~raised
        emit == runs /\ GateOpen(clock)
    IN  /\ botPc = "ready"
        /\ emit => awaiting < MaxAwait
        /\ (runs /\ ~emit) => num_responses < MaxNum
        /\ (q /\ ~emit) => sinceAck < MaxNum
        /\ awaiting' = IF emit THEN awaiting + 1 ELSE awaiting
        /\ num_responses' = IF runs /\ ~emit THEN num_responses + 1
                            ELSE num_responses
        /\ traffic' = (traffic \/ q)
        /\ sinceAck' = IF q /\ ~emit THEN sinceAck + 1 ELSE sinceAck
        /\ ev' = [op |-> "on_message", channel |-> m.channel,
                  content |-> m.content, qualifies |-> q,
                  first |-> q /\ ~traffic,
                  calls |-> IF q THEN send_calls ELSE 0,
                  payload |-> IF q THEN command(m.content) ELSE <<>>,
                  outcome |-> outcome, raised |-> raised, logged |-> runs,
                  debounced |-> runs, ack |-> emit,
                  suffix |-> IF emit THEN response_str ELSE 0,
                  others |-> IF emit THEN sinceAck ELSE 0]
        /\ UNCHANGED <<mainVars, runnerVars, connVars, botVars>>
        /\ UNCHANGED <<last_response, clock>>

(* on_message, lines 45-46, after `await message.channel.send(...)`        *)
(* returned.                                                               *)
ack_sent ==
    /\ awaiting > 0
    /\ awaiting' = awaiting - 1
    /\ num_responses' = 0
    /\ last_response' = clock
    /\ sinceAck' = 0
    /\ ev' = [op |-> "ack_sent"]
    /\ UNCHANGED <<mainVars, runnerVars, connVars, botVars, traffic, clock>>

(* `await message.channel.send(...)` raised (the post was refused): the    *)
(* task ends at line 44.                                                   *)
ack_failed ==
    /\ awaiting > 0
    /\ sinceAck < MaxNum
    /\ awaiting' = awaiting - 1
    /\ sinceAck' = sinceAck + 1
    /\ ev' = [op |-> "ack_failed"]
    /\ UNCHANGED <<mainVars, runnerVars, connVars, botVars, traffic, clock>>
    /\ UNCHANGED <<last_response, num_responses>>

TickFlush ==
    /\ clock < ClockBase + MaxTicks * TickSecs
    /\ clock' = clock + TickSecs
    /\ num_responses' = 0
    /\ ev' = [op |-> "tick"]
    /\ UNCHANGED <<mainVars, runnerVars, connVars, botVars>>
    /\ UNCHANGED <<last_response, awaiting, traffic, sinceAck>>
(* Time passes.                                                            *)
Tick ==
    /\ clock < ClockBase + MaxTicks * TickSecs
    /\ clock' = clock + TickSecs
    /\ ev' = [op |-> "tick"]
    /\ UNCHANGED <<mainVars, runnerVars, connVars, botVars, ackVars>>

Next ==
    \/ viewSettingsDialog
    \/ viewSettingsDialog_again
    \/ check_status
    \/ closeEvent
    \/ close_join
    \/ run_lumia_start
    \/ run_bot
    \/ \E c \in ConnIds : LumiaStream_run(c)
    \/ \E c \in ConnIds : on_open(c)
    \/ \E c \in ConnIds : lumia_on_message(c)
    \/ \E c \in ConnIds : on_error(c)
    \/ \E c \in ConnIds : on_close(c)
    \/ bot_login
    \/ bot_ready
    \/ bot_drop
    \/ bot_closed
    \/ \E m \in Messages : on_message(m)
    \/ ack_sent
    \/ ack_failed
    \/ Tick

Spec == Init /\ [][Next]_vars

(* The bridge's life cycle: every operation but the chat relay, which      *)
(* reads the life cycle's state and writes none of it (the clock stands    *)
(* still).                                                                 *)
NextBridge ==
    \/ viewSettingsDialog
    \/ check_status
    \/ closeEvent
    \/ close_join
    \/ run_lumia_start
    \/ run_bot
    \/ \E c \in ConnIds : LumiaStream_run(c)
    \/ \E c \in ConnIds : on_open(c)
    \/ \E c \in ConnIds : lumia_on_message(c)
    \/ \E c \in ConnIds : on_error(c)
    \/ \E c \in ConnIds : on_close(c)
    \/ bot_login
    \/ bot_ready
    \/ bot_drop
    \/ bot_closed

SpecBridge == Init /\ [][NextBridge]_vars

(* The chat relay on a bridge that is started and closed but not health-   *)
(* checked: on_message reads of the life cycle only self.lumia and the     *)
(* state of that LumiaStream's thread, and every such state (socket still  *)
(* None, connecting, open, torn down, closed) is reached without a         *)
(* reconnect.                                                              *)
NextRelay ==
    \/ viewSettingsDialog
    \/ closeEvent
    \/ close_join
    \/ run_lumia_start
    \/ run_bot
    \/ \E c \in ConnIds : LumiaStream_run(c)
    \/ \E c \in ConnIds : on_open(c)
    \/ \E c \in ConnIds : on_error(c)
    \/ \E c \in ConnIds : on_close(c)
    \/ bot_login
    \/ bot_ready
    \/ bot_closed
    \/ \E m \in Messages : on_message(m)
    \/ ack_sent
    \/ ack_failed
    \/ Tick

SpecRelay == Init /\ [][NextRelay]_vars

(* The acknowledgment path on a running, health-checked bridge: the chat   *)
(* relay together with the health check, the automation callbacks and the  *)
(* clock, without the shutdown (which writes none of the debouncer's       *)
(* state). The health check ticks here once the thread of self.lumia has   *)
(* made its first step: the LumiaStream objects orphaned by a tick before  *)
(* that step (SpecBridge has them) take no part in the relay, on_message   *)
(* reads self.lumia alone.                                                 *)
NextAck ==
    \/ viewSettingsDialog
    \/ check_status /\ (lumia # 0 => lumiaPc[lumia] # "started")
    \/ run_lumia_start
    \/ run_bot
    \/ \E c \in ConnIds : LumiaStream_run(c)
    \/ \E c \in ConnIds : on_open(c)
    \/ \E c \in ConnIds : lumia_on_message(c)
    \/ \E c \in ConnIds : on_error(c)
    \/ \E c \in ConnIds : on_close(c)
    \/ bot_login
    \/ bot_ready
    \/ \E m \in Messages : on_message(m)
    \/ ack_sent
    \/ ack_failed
    \/ Tick

SpecAck == Init /\ [][NextAck]_vars

(* The life cycle with its scheduling: while the window is open the       *)
(* QTimer keeps calling check_status every 5 s, and a thread that was      *)
(* started gets to run.                                                    *)
SpecLive ==
    /\ Init
    /\ [][NextBridge]_vars
    /\ WF_vars(check_status)
    /\ \A c \in ConnIds : WF_vars(LumiaStream_run(c))

(* The life cycle with repeated settings saves: a save made while a       *)
(* bridge exists starts another one.                                       *)
NextSettings ==
    \/ NextBridge
    \/ viewSettingsDialog_again

SpecSettings == Init /\ [][NextSettings]_vars

(* ============================== properties ============================ *)

\* The event is an inbound chat message of the monitored channel whose
\* text begins with "!".
Prefixed(e) ==
    /\ e.op = "on_message"
    /\ e.channel \in channels
    /\ e.content # <<>>
    /\ Head(e.content) = "!"

\* The event is a prefixed command whose automation send went out.
Relayed(e) == Prefixed(e) /\ e.outcome = "sent"

\* The event is a prefixed command whose automation send raised.
SendFailed(e) ==
    Prefixed(e) /\ e.outcome \in {"AttributeError", "ConnectionClosed"}

AutomationCallbacks == {"on_open", "lumia_on_message", "on_error", "on_close"}

\* C1: every message of the monitored channel that begins with "!" makes
\* the relay path call send_chat_cmd exactly once, with the text less its
\* first character.
C1_RelayedOnceStripped ==
    Prefixed(ev) =>
        /\ ev.calls = 1
        /\ ev.payload = Tail(ev.content)

C1_Witness ==
    /\ Prefixed(ev)
    /\ ev.content = <<"!", "a">>
    /\ ev.payload = <<"a">>
    /\ ev.outcome = "sent"

\* C2: a message that is empty, does not begin with "!" or comes from
\* another channel causes no automation send and no acknowledgment and
\* leaves num_responses and last_response as they were.
C2_IgnoredUntouched ==
    [][(ev'.op = "on_message" /\ ~Prefixed(ev')) =>
          /\ ev'.calls = 0
          /\ ~ev'.ack
          /\ UNCHANGED <<num_responses, last_response, awaiting>>]_vars

C2_Witness ==
    /\ ev.op = "on_message"
    /\ ev.channel \notin channels
    /\ ev.content = <<"!", "a">>
    /\ num_responses = 1
    /\ clock - last_response > SecsBetweenResponses

\* C3 as claimed: on each relayed command an acknowledgment is emitted
\* exactly when at least 10 seconds (exactly 10 included) have passed since
\* the last one; otherwise the suppressed counter grows by one.
C3_AckIffAtLeastTen ==
    [][Relayed(ev') =>
          /\ ev'.ack <=> (clock - last_response >= SecsBetweenResponses)
          /\ ~ev'.ack => num_responses' = num_responses + 1]_vars

\* C3 amended: on each relayed command an acknowledgment is emitted
\* exactly when strictly more than 10 seconds have passed since the last
\* one (at exactly 10 it is suppressed); otherwise nothing is emitted and
\* the suppressed counter grows by exactly one.
C3_AckIffMoreThanTen ==
    [][Relayed(ev') =>
          /\ ev'.ack <=> (clock - last_response > SecsBetweenResponses)
          /\ ev'.ack => num_responses' = num_responses
          /\ ~ev'.ack => /\ num_responses' = num_responses + 1
                         /\ awaiting' = awaiting]_vars

C3_Witness ==
    /\ Relayed(ev)
    /\ ~ev.ack
    /\ clock - last_response = SecsBetweenResponses
    /\ num_responses = 1

\* C4: the suppressed counter is the number of prefixed commands handled
\* since the last emitted acknowledgment (read when no acknowledgment is
\* in flight), and an acknowledgment carries the suffix for k others
\* exactly when k > 0, k being that number.
C4_CounterCountsSuppressed ==
    /\ awaiting = 0 => num_responses = sinceAck
    /\ (ev.op = "on_message" /\ ev.ack) => ev.suffix = ev.others

\* C5: the first prefixed command a fresh DiscordBot handles is
\* acknowledged at once, without suffix.
C5_FirstCommandAcked ==
    (Prefixed(ev) /\ ev.first) => (ev.ack /\ ev.suffix = 0)

\* C8: a failed automation send is swallowed in the relay: no exception
\* reaches on_message, the "Discord Msg" line is logged and the debouncer
\* step runs.
C8_FailedSendSwallowed ==
    SendFailed(ev) => (~ev.raised /\ ev.logged /\ ev.debounced)

\* C6: a health check on a started bridge starts exactly one new
\* LumiaStream when the current one reports disconnected and none when it
\* reports connected.
C6_OneAttemptPerTick ==
    [][(ev'.op = "check_status" /\ ev'.bridge /\ ~ev'.raised) =>
          IF is_connected(lumia)
          THEN UNCHANGED <<nconns, lumia, lumiaPc>>
          ELSE /\ nconns' = nconns + 1
               /\ lumiaPc'[nconns'] = "started"
               /\ \A c \in ConnIds \ {nconns'} : lumiaPc'[c] = lumiaPc[c]]_vars

C6_Witness ==
    /\ ev.op = "check_status"
    /\ ev.reconnect
    /\ nconns = 2
    /\ lumiaPc[1] = "dead"
    /\ lumiaPc[2] = "started"

\* C7: once close() has returned, no LumiaStream the bridge started
\* reports connected and no automation callback fires.
C7_ClosedMeansSilent ==
    closePc = "returned" =>
        /\ \A c \in 1..nconns : ~is_connected(c)
        /\ ev.op \notin AutomationCallbacks

\* C9: with no bridge the health check reports both ends "Not Running" and
\* disconnected, and the health check never raises, also while the
\* LumiaStream object does not exist yet.
C9_StatusNeverRaises ==
    ev.op = "check_status" =>
        /\ ~ev.raised
        /\ ~ev.bridge => /\ discordLabel = "Not Running"
                         /\ lumiaLabel = "Not Running"
                         /\ ~ev.discord
                         /\ ~ev.lumia

\* C10 as claimed: is_connected() is true after on_open, false after
\* on_close and false after on_error, and stays false once closed.
C10_FlagFollowsCallbacks ==
    [][/\ ev'.op = "on_open" => connected'[ev'.conn]
       /\ ev'.op \in {"on_close", "on_error"} => ~connected'[ev'.conn]
       /\ \A c \in ConnIds : lumiaPc[c] = "dead" => ~connected'[c]]_vars

\* C10 amended: is_connected() is true after on_open and false after
\* on_close; on_error leaves it as it was (it turns false only with the
\* on_close that follows); once false after on_close it stays false for
\* that LumiaStream.
C10_FlagFollowsOpenClose ==
    [][/\ ev'.op = "on_open" => connected'[ev'.conn]
       /\ ev'.op = "on_close" => ~connected'[ev'.conn]
       /\ ev'.op = "on_error" =>
              connected'[ev'.conn] = is_connected(ev'.conn)
       /\ \A c \in ConnIds : lumiaPc[c] = "dead" => ~connected'[c]]_vars

C10_Witness ==
    /\ ev.op = "on_error"
    /\ lumiaPc[ev.conn] = "closing"
    /\ is_connected(ev.conn)

\* The operation emitted a log event to the observer (DiscordBotRunner.log
\* or MainWindow.log): lumia_start ("Connecting to LumiaStream"), the four
\* lumia_callback_* slots behind the LumiaStream signals, the status reads
\* of a health check on a bridge, and on_discord_msg ("Discord Msg").
EmitsLog(e) ==
    \/ e.op \in {"run_lumia_start", "on_open", "on_close", "on_error",
                 "lumia_on_message"}
    \/ e.op = "check_status" /\ e.bridge
    \/ e.op = "on_message" /\ e.logged

\* The thread of LumiaStream c runs or is still to run: it can deliver
\* callbacks.
Live(c) == lumiaPc[c] \in {"started", "connecting", "open", "closing"}

\* C11: once close() has been called on the bridge, no operation starts a
\* new automation connection.
C11_StoppedIsTerminal ==
    [][stopping => nconns' = nconns]_vars

\* C12: after close() returned no log or status event is emitted to the
\* observer any more.
C12_NoLogAfterStopped ==
    closePc = "returned" => ~EmitsLog(ev)

\* C14: from the moment lumia_start started a LumiaStream it reports
\* connected until a close or error callback arrives, so no health check
\* replaces a LumiaStream whose thread has not made its first step.
C14_ConnectedFromStart ==
    [][/\ \A c \in ConnIds :
              lumiaPc'[c] \in {"started", "connecting", "open"}
                  => connected'[c]
       /\ (ev'.op = "check_status" /\ ev'.reconnect)
              => lumiaPc[lumia] # "started"]_vars

\* C15: close() called in any state after start() does not raise, and once
\* it returned no LumiaStream thread of the bridge runs or is still to run.
C15_CloseAlwaysCompletes ==
    /\ closePc # "raised"
    /\ closePc = "returned" => \A c \in 1..nconns : ~Live(c)

\* C19: at every moment at most one LumiaStream thread of the bridge is
\* live.
C19_OneLiveWorker ==
    Cardinality({c \in 1..nconns : Live(c)}) <= 1

\* C13: any two acknowledgments are at least SecsBetweenResponses apart,
\* whatever the interleaving of the on_message tasks: when a post of an
\* acknowledgment completes, the previous completed post is at least
\* SecsBetweenResponses old.
C13_AcksTenApart ==
    [][(ev'.op = "ack_sent" /\ last_response # 0)
          => last_response' - last_response >= SecsBetweenResponses]_vars

\* C16: an acknowledgment is emitted, and the suppressed counter and the
\* last-acknowledgment timestamp change, only in handling a prefixed chat
\* command (the on_message task up to its await, or its continuation
\* after the await): health check, automation callbacks, life-cycle steps
\* and the passage of time leave all three alone.
C16_OnlyCommandsTouchAcks ==
    [][(\/ awaiting' > awaiting
        \/ num_responses' # num_responses
        \/ last_response' # last_response)
          => (Prefixed(ev') \/ (ev'.op = "ack_sent" /\ awaiting > 0))]_vars

\* C16 happens: a burst was suppressed, the gate has opened again and no
\* acknowledgment is in flight, and the health check has just run: the
\* counter is still waiting for the next command.
C16_Witness ==
    /\ ev.op = "check_status"
    /\ num_responses >= 1
    /\ awaiting = 0
    /\ GateOpen(clock)

\* C17 as stated: a health check leaves the chat connection as it is, and
\* a chat session that a health check has just observed as not ready does
\* not become ready on this bridge.
C17_ChatUntouchedAndTerminal ==
    [][/\ ev'.op = "check_status" => UNCHANGED botVars
       /\ (/\ ev.op = "check_status" /\ ev.bridge /\ ~ev.raised
           /\ ~ev.discord /\ botPc \in {"created", "logged_in"})
              => botPc' # "ready"]_vars

\* C17, amended: a health check leaves the chat connection as it is; a
\* chat session becomes ready by the chat client's own ready event alone,
\* which may follow a health check that observed it as not ready.
C17_HealthCheckReadsChat ==
    [][/\ ev'.op = "check_status" => UNCHANGED botVars
       /\ (botPc # "ready" /\ botPc' = "ready") => ev'.op = "bot_ready"]_vars

\* C17 happens: a health check on a bridge has just read the status of a
\* chat session that is logged in but not ready (logging in, or dropped
\* and resuming) and has shown it.
C17_Witness ==
    /\ ev.op = "check_status" /\ ev.bridge /\ ~ev.raised
    /\ ~ev.discord
    /\ botPc = "logged_in"
    /\ discordLabel = "Logged In"

\* The close callback of the bridge's current LumiaStream has just arrived
\* on a bridge that is not being closed (and the bound on the number of
\* LumiaStream objects leaves room for a reconnect).
Dropped ==
    /\ ev.op = "on_close" /\ ev.conn = lumia
    /\ windowOpen /\ closePc = "no"
    /\ nconns < MaxConns

\* C18: when the close callback of the bridge's LumiaStream has arrived
\* and the health check keeps ticking, the bridge's LumiaStream is
\* eventually reported connected again (is_connected() of self.lumia),
\* unless the window is closed first.
C18_DropIsRecovered ==
    Dropped ~> (~windowOpen \/ (lumia # 0 /\ is_connected(lumia)))

\* C18 happens: the first LumiaStream was closed and its thread ended, the
\* health check has replaced it, and the thread of the second has just
\* started running and reports connected.
C18_Witness ==
    /\ windowOpen
    /\ lumiaPc[1] = "dead" /\ ~is_connected(1)
    /\ lumia = 2
    /\ ev.op = "LumiaStream_run" /\ ev.conn = lumia
    /\ is_connected(lumia)

\* Bridges that were started and never closed: the replaced ones and the
\* one MainWindow.discord_bot refers to.
ActiveBridges ==
    replaced + (IF discord_bot # "None" /\ ~stopping THEN 1 ELSE 0)

\* C20: whatever the sequence of settings saves, at most one bridge is
\* active: a bridge is closed before or when the save that replaces it
\* starts the new one (so no chat message is relayed or acknowledged by
\* two bridges).
C20_OneActiveBridge ==
    ActiveBridges <= 1

====
